---- MODULE Spec2Model ----
(***************************************************************************)
(* spook: a file watcher that runs a command and/or broadcasts a           *)
(* server-sent event to HTTP subscribers whenever a watched file changes.  *)
(*                                                                         *)
(* Threads modelled:                                                       *)
(*   - the control task       main() and update()      (src/src/main.rs)   *)
(*   - the acceptor           manage_connections()     (src/src/server.rs) *)
(*   - one session per accepted connection  serve_events()                 *)
(*   - the remote peers (environment) of the accepted connections          *)
(* A fatal error returned by main() ends the process, and with it every    *)
(* thread: no action is enabled once mainPc = "halted".                    *)
(*                                                                         *)
(* A run takes place in one of two worlds, chosen in Init:                 *)
(*   "tracked"   one client connects, and its end of the connection is     *)
(*               modelled in detail (segments sent, frames read, FIN, RST),*)
(*               so that every socket call's result follows from it;       *)
(*   "arbitrary" MaxSubs clients connect and nothing is assumed of them:   *)
(*               every socket call of a session may return any result.     *)
(* Each world bounds the update() calls of a run.                          *)
(***************************************************************************)
EXTENDS Integers, Sequences, FiniteSets, TLC

\* ---------------------------------------------------------------- bounds
MaxSubs == 2           \* clients that connect in the "arbitrary" world
ArbitraryUpdates == 2  \* update() calls of a run in the "arbitrary" world
TrackedUpdates == 3    \* update() calls of a run in the "tracked" world
SockCap == 2           \* event frames a connection buffers for a peer that does not read

Subs == 1..MaxSubs

\* ------------------------------------------------------------- constants
EVENT_PATH == "/events"

\* DebouncedEvent kinds, as matched in main()
IgnoredKinds == {"NoticeRemove", "NoticeWrite", "Rescan"}
ModifiedKinds == {"Write", "Chmod", "Create"}
NoticeKinds == IgnoredKinds \cup ModifiedKinds \cup {"Remove", "Rename", "Error"}

\* What a session writes on its socket
Preamble == "HTTP/1.1 200 OK + SSE headers"
Resp405 == "HTTP/1.1 405 Method Not Allowed"
Resp404 == "HTTP/1.1 404 Not Found"
Frame == "event: <name> data"

\* The requests a peer may send: a method token, a path token and the rest
\* (version and headers), each arriving as one segment.  "BAD" stands for
\* bytes httparse rejects.
Requests == { [method |-> m, path |-> p] : m \in {"GET", "POST"}, p \in {EVENT_PATH, "/other"} }
              \cup { [method |-> "BAD", path |-> ""] }
NoRequest == [method |-> "", path |-> ""]
Segments == <<"method", "path", "rest">>
ReqSegments == Len(Segments)

VARIABLES
    world,      \* "tracked" or "arbitrary" clients (immutable)
    cfg,        \* ArgList: [init, cmd, event] (immutable after parse_args)
    mainPc,     \* position of the control task
    notice,     \* the DebouncedEvent just received ("none" outside the match)
    rearm,      \* result of watcher.watch() on a Remove ("none", "ok", "err")
    err,        \* the Err main() returned ("none" while running)
    cmdStatus,  \* this update()'s command: "none", "running", "exit0", "exit1"
    nUpdates,   \* update() calls so far
    lock,       \* owner of the Mutex around the registry: "free" or "main" (the
                \* acceptor takes and drops it within one statement, see acc_push)
    tx_list,    \* the registry: Vec<Sender<()>>, as the sequence of subscriber ids
    drain,      \* update(): senders still to be visited by drain(..)
    kept,       \* update(): senders collected so far
    accPc,      \* position of the acceptor thread
    nAccepted,  \* connections accepted so far
    sessPc,     \* position of each session thread
    rxAlive,    \* whether the Receiver of each channel still exists
    chan,       \* notifications queued in each channel
    out,        \* what each session wrote on its socket, in order
    req,        \* the request each peer sends
    got,        \* request segments each session has read
    inbuf,      \* request segments sent by the peer and not yet read
    conn,       \* each peer's end: "none", "open", "closed" (FIN), "reset" (RST), "any"
    sockBuf,    \* frames written and not yet read by the peer
    queued,     \* history: notifications waiting when the session of a tracked
                \* client entered Streaming (-1 before, and of arbitrary clients)
    closeInfo,  \* history: the update() calls and frames written when the peer closed
    delivered,  \* history: successful sends to each subscriber
    registered, \* history: subscribers whose registration (the push) has completed
    failed,     \* history: subscribers to which a send has failed
    bcastPre,   \* history: the registry when the current critical section began
    regAtLock,  \* history: registered and not failed when the current critical section began
    deadAtLock, \* history: sessions that had ended when the current critical section began
    sentOk,     \* history: subscribers whose send succeeded in the current broadcast
    attempts    \* history: sends attempted to each subscriber in the current broadcast

mainVars == <<mainPc, notice, rearm, err, cmdStatus, nUpdates>>
regVars == <<lock, tx_list, drain, kept>>
accVars == <<accPc, nAccepted>>
sessVars == <<sessPc, rxAlive, out, got, queued>>
peerVars == <<req, inbuf, conn, sockBuf, closeInfo>>
bcastHist == <<failed, bcastPre, regAtLock, deadAtLock, sentOk, attempts>>
vars == <<world, cfg, mainVars, regVars, accVars, sessVars, peerVars, chan, delivered, registered, bcastHist>>

\* ------------------------------------------------------------------ Init
\* parse_args(): a command is required unless --signal is given.
Configs == { c \in [init : BOOLEAN, cmd : BOOLEAN, event : BOOLEAN] : c.cmd \/ c.event }

\* The "arbitrary" world is started with --signal alone.
SignalOnly == [init |-> FALSE, cmd |-> FALSE, event |-> TRUE]
NotClosed == [upd |-> -1, frames |-> -1]

Init ==
    /\ world \in {"tracked", "arbitrary"}
    /\ cfg \in IF world = "tracked" THEN Configs ELSE {SignalOnly}
    /\ mainPc = "start"
    /\ notice = "none"
    /\ rearm = "none"
    /\ err = "none"
    /\ cmdStatus = "none"
    /\ nUpdates = 0
    /\ lock = "free"
    /\ tx_list = <<>>
    /\ drain = <<>>
    /\ kept = <<>>
    /\ accPc = IF cfg.event THEN "bind" ELSE "off"
    /\ nAccepted = 0
    /\ sessPc = [s \in Subs |-> "none"]
    /\ rxAlive = [s \in Subs |-> FALSE]
    /\ chan = [s \in Subs |-> 0]
    /\ out = [s \in Subs |-> <<>>]
    /\ req = [s \in Subs |-> NoRequest]
    /\ got = [s \in Subs |-> 0]
    /\ inbuf = [s \in Subs |-> 0]
    /\ conn = [s \in Subs |-> "none"]
    /\ sockBuf = [s \in Subs |-> 0]
    /\ closeInfo = [s \in Subs |-> NotClosed]
    /\ queued = [s \in Subs |-> -1]
    /\ delivered = [s \in Subs |-> 0]
    /\ registered = {}
    /\ failed = {}
    /\ bcastPre = <<>>
    /\ regAtLock = {}
    /\ deadAtLock = {}
    /\ sentOk = {}
    /\ attempts = [s \in Subs |-> 0]

Running == mainPc # "halted"

\* The clients that connect in a run, whether their end is modelled, and the
\* update() calls of the run.
Tracked == world = "tracked"
Clients == IF Tracked THEN 1 ELSE MaxSubs
MaxUpdates == IF Tracked THEN TrackedUpdates ELSE ArbitraryUpdates

\* The event frames a session has written.
IsFrame(x) == x = Frame
Frames(s) == Len(SelectSeq(out[s], IsFrame))

\* ------------------------------------------------- control task: update()
\* Where update() goes after its command step (main.rs 203-209).
AfterCmd == IF cfg.event THEN "lock" ELSE "recv"

\* Entry of update(): the verbose lines do not affect control flow.
update_call ==
    /\ nUpdates' = nUpdates + 1
    /\ cmdStatus' = "none"
    /\ mainPc' = IF cfg.cmd THEN "cmd" ELSE AfterCmd

\* Variant: a launch failure is ignored and update() goes on.
CmdLaunchUnchecked(launched) == IF launched THEN "cmd_wait" ELSE AfterCmd

\* What update() does when cmd.status() returns: Err is fatal.
CmdLaunch(launched) == IF launched THEN "cmd_wait" ELSE "halted"

\* cmd.status(): the launch either fails (fatal) or the child starts.
update_cmd_start ==
    /\ mainPc = "cmd"
    /\ \E launched \in BOOLEAN :
         /\ mainPc' = CmdLaunch(launched)
         /\ cmdStatus' = IF launched THEN "running" ELSE cmdStatus
         /\ err' = IF CmdLaunch(launched) = "halted" THEN "Failed to run command" ELSE err
    /\ UNCHANGED <<notice, rearm, nUpdates>>
    /\ UNCHANGED <<world, cfg, regVars, accVars, sessVars, peerVars, chan, delivered, registered, bcastHist>>

\* Variant: the broadcast is skipped when the command exits with a failure.
CmdExitChecked(status) == IF status = "exit0" THEN AfterCmd ELSE "recv"

\* What update() does with the child's exit status: nothing.
CmdExit(status) == AfterCmd

\* cmd.status() returns Ok(status) once the child has run to completion.
update_cmd_exit ==
    /\ mainPc = "cmd_wait"
    /\ \E status \in {"exit0", "exit1"} :
         /\ mainPc' = CmdExit(status)
         /\ cmdStatus' = IF CmdExit(status) = "lock" THEN status ELSE "none"
    /\ UNCHANGED <<notice, rearm, err, nUpdates>>
    /\ UNCHANGED <<world, cfg, regVars, accVars, sessVars, peerVars, chan, delivered, registered, bcastHist>>

\* Variant: a send never fails.
SendAlwaysOk(s) == TRUE

\* tx.send(()) succeeds iff the channel's Receiver still exists.
SendOk(s) == rxAlive[s]

\* Variant: a failed send empties what was collected so far.
CollectResetOnFail(acc, tx, ok) == IF ok THEN Append(acc, tx) ELSE <<>>

\* Variant: every sender is kept, whatever the result of its send.
CollectAll(acc, tx, ok) == Append(acc, tx)

\* Variant: no sender is kept.
CollectNone(acc, tx, ok) == acc

\* Variant: survivors are collected in reverse order.
CollectPrepend(acc, tx, ok) == IF ok THEN <<tx>> \o acc ELSE acc

\* filter(..).collect(): a sender is kept, in order, iff its send succeeded.
Collect(acc, tx, ok) == IF ok THEN Append(acc, tx) ELSE acc

\* Variant: the control task also waits for the sessions blocked in their
\* handshake read, as if they held the mutex across it.
MainWaitsForHandshakes == lock = "free" /\ \A s \in Subs : sessPc[s] # "read"

\* event_tx_list.lock(): blocks until the mutex is free.
MainCanLock == lock = "free"

\* event_tx_list.lock() and tx_list.drain(..): the vector is emptied.
update_lock ==
    /\ mainPc = "lock"
    /\ MainCanLock
    /\ lock' = "main"
    /\ drain' = tx_list
    /\ tx_list' = <<>>
    /\ kept' = <<>>
    /\ mainPc' = "send"
    /\ bcastPre' = tx_list
    /\ regAtLock' = registered \ failed
    /\ deadAtLock' = { s \in Subs : sessPc[s] = "closed" }
    /\ UNCHANGED <<failed, sentOk, attempts>>
    /\ UNCHANGED <<notice, rearm, err, cmdStatus, nUpdates>>
    /\ UNCHANGED <<world, cfg, accVars, sessVars, peerVars, chan, delivered, registered>>

\* One step of the drain: send to the next sender and filter on the result.
update_send ==
    /\ mainPc = "send"
    /\ drain # <<>>
    /\ LET tx == Head(drain)
           ok == SendOk(tx)
       IN /\ drain' = Tail(drain)
          /\ kept' = Collect(kept, tx, ok)
          /\ chan' = IF ok THEN [chan EXCEPT ![tx] = @ + 1] ELSE chan
          /\ delivered' = IF ok THEN [delivered EXCEPT ![tx] = @ + 1] ELSE delivered
          /\ sentOk' = IF ok THEN sentOk \cup {tx} ELSE sentOk
          /\ failed' = IF ok THEN failed ELSE failed \cup {tx}
          /\ attempts' = [attempts EXCEPT ![tx] = @ + 1]
    /\ UNCHANGED <<lock, tx_list, bcastPre, regAtLock, deadAtLock>>
    /\ UNCHANGED <<world, cfg, mainVars, accVars, sessVars, peerVars, registered>>

\* *tx_list = ...collect(); the guard is dropped; update() returns Ok(()).
update_collect ==
    /\ mainPc = "send"
    /\ drain = <<>>
    /\ tx_list' = kept
    /\ kept' = <<>>
    /\ lock' = "free"
    /\ mainPc' = "recv"
    /\ cmdStatus' = "none"
    /\ bcastPre' = <<>>
    /\ regAtLock' = {}
    /\ deadAtLock' = {}
    /\ sentOk' = {}
    /\ attempts' = [s \in Subs |-> 0]
    /\ UNCHANGED <<drain, failed>>
    /\ UNCHANGED <<notice, rearm, err, nUpdates>>
    /\ UNCHANGED <<world, cfg, accVars, sessVars, peerVars, chan, delivered, registered>>

\* --------------------------------------------------- control task: main()
\* if arg_list.init { update(..)? }
main_start ==
    /\ mainPc = "start"
    /\ IF cfg.init
       THEN update_call
       ELSE /\ mainPc' = "recv"
            /\ UNCHANGED <<nUpdates, cmdStatus>>
    /\ UNCHANGED <<notice, rearm, err>>
    /\ UNCHANGED <<world, cfg, regVars, accVars, sessVars, peerVars, chan, delivered, registered, bcastHist>>

\* rx.recv().unwrap(): the next debounced event, in arrival order.
main_recv ==
    /\ mainPc = "recv"
    /\ nUpdates < MaxUpdates
    /\ \E k \in NoticeKinds : notice' = k
    /\ mainPc' = "match"
    /\ UNCHANGED <<rearm, err, cmdStatus, nUpdates>>
    /\ UNCHANGED <<world, cfg, regVars, accVars, sessVars, peerVars, chan, delivered, registered, bcastHist>>

\* Variant: a rename is treated like a modification.
ClassifyRenameAsWrite(k) ==
    CASE k \in IgnoredKinds -> "Ignored"
      [] k \in ModifiedKinds \cup {"Rename"} -> "Actionable"
      [] k = "Remove" -> "Rearm"
      [] k = "Error" -> "notifier error"

\* Variant: NoticeWrite is treated like Write.
ClassifyNoticeWrite(k) ==
    CASE k \in IgnoredKinds \ {"NoticeWrite"} -> "Ignored"
      [] k \in ModifiedKinds \cup {"NoticeWrite"} -> "Actionable"
      [] k = "Remove" -> "Rearm"
      [] k = "Rename" -> "File was renamed"
      [] k = "Error" -> "notifier error"

\* The arm of the match each kind of event takes.
Classify(k) ==
    CASE k \in IgnoredKinds -> "Ignored"
      [] k \in ModifiedKinds -> "Actionable"
      [] k = "Remove" -> "Rearm"
      [] k = "Rename" -> "File was renamed"
      [] k = "Error" -> "notifier error"

\* match rx.recv().unwrap() { .. }
main_match ==
    /\ mainPc = "match"
    /\ LET c == Classify(notice)
       IN CASE c = "Ignored" ->
                 /\ mainPc' = "recv"
                 /\ notice' = "none"
                 /\ UNCHANGED <<rearm, err, cmdStatus, nUpdates>>
            [] c = "Actionable" ->
                 /\ update_call
                 /\ notice' = "none"
                 /\ UNCHANGED <<rearm, err>>
            [] c = "Rearm" ->
                 \* watcher.watch(path.clone(), RecursiveMode::NonRecursive)
                 /\ \E r \in {"ok", "err"} : rearm' = r
                 /\ mainPc' = "rearmed"
                 /\ UNCHANGED <<notice, err, cmdStatus, nUpdates>>
            [] OTHER ->
                 /\ mainPc' = "halted"
                 /\ err' = c
                 /\ UNCHANGED <<notice, rearm, cmdStatus, nUpdates>>
    /\ UNCHANGED <<world, cfg, regVars, accVars, sessVars, peerVars, chan, delivered, registered, bcastHist>>

\* Variant: the result of watcher.watch() is ignored.
RearmIgnoresError(r) == "Actionable"

\* What the Remove arm does with the result of watcher.watch().
RearmOutcome(r) == IF r = "ok" THEN "Actionable" ELSE "File was deleted"

\* .map_err(..).and_then(|_| update(..))?
main_rearmed ==
    /\ mainPc = "rearmed"
    /\ IF RearmOutcome(rearm) = "Actionable"
       THEN /\ update_call
            /\ notice' = "none"
            /\ rearm' = "none"
            /\ err' = err
       ELSE /\ mainPc' = "halted"
            /\ err' = RearmOutcome(rearm)
            /\ UNCHANGED <<notice, rearm, cmdStatus, nUpdates>>
    /\ UNCHANGED <<world, cfg, regVars, accVars, sessVars, peerVars, chan, delivered, registered, bcastHist>>

\* ------------------------------------------------ acceptor: manage_connections()
\* TcpListener::bind(..).expect(..): a failure panics the acceptor thread.
\* A panic in a spawned thread ends that thread only; main() keeps running.
BindOutcome(bound) == IF bound THEN "accept" ELSE "panicked"

acc_bind ==
    /\ Running
    /\ accPc = "bind"
    /\ \E bound \in BOOLEAN : accPc' = BindOutcome(bound)
    /\ UNCHANGED nAccepted
    /\ UNCHANGED <<world, cfg, mainVars, regVars, sessVars, peerVars, chan, delivered, registered, bcastHist>>

\* The subscriber the acceptor is handling between accept and spawn.
Current == nAccepted

\* listener.incoming() yields Ok(stream); channel() creates the pair; the
\* acceptor then waits for the mutex.
acc_accept ==
    /\ Running
    /\ accPc = "accept"
    /\ nAccepted < Clients
    /\ nAccepted' = nAccepted + 1
    /\ accPc' = "lock"
    /\ conn' = [conn EXCEPT ![nAccepted + 1] = IF Tracked THEN "open" ELSE "any"]
    /\ \E r \in (IF Tracked THEN Requests ELSE {NoRequest}) :
         req' = [req EXCEPT ![nAccepted + 1] = r]
    /\ rxAlive' = [rxAlive EXCEPT ![nAccepted + 1] = TRUE]
    /\ UNCHANGED <<sessPc, out, got, queued, inbuf, sockBuf, closeInfo>>
    /\ UNCHANGED <<world, cfg, mainVars, regVars, chan, delivered, registered, bcastHist>>

\* Variant: the acceptor pushes without waiting for the mutex.
AccIgnoresLock == TRUE

\* event_tx_list.lock(): blocks until the mutex is free.
AccCanLock == lock = "free"

\* Variant: the sender is appended twice.
PushTwice(list, tx) == Append(Append(list, tx), tx)

\* Variant: the sender is not stored.
PushNothing(list, tx) == list

\* Vec::push: the sender is appended.
Push(list, tx) == Append(list, tx)

\* event_tx_list.lock().unwrap().push(event_tx): the temporary guard is
\* dropped at the end of the statement; then the session thread is spawned.
acc_push ==
    /\ Running
    /\ accPc = "lock"
    /\ AccCanLock
    /\ tx_list' = Push(tx_list, Current)
    /\ registered' = registered \cup {Current}
    /\ sessPc' = [sessPc EXCEPT ![Current] = "read"]
    /\ accPc' = "accept"
    /\ UNCHANGED <<lock, drain, kept, nAccepted, rxAlive, out, got, queued>>
    /\ UNCHANGED <<world, cfg, mainVars, peerVars, chan, delivered, bcastHist>>

Acceptor ==
    \/ acc_bind
    \/ acc_accept
    \/ acc_push

\* ------------------------------------------------------ session: serve_events()
\* httparse on the bytes read so far: Err on bytes it rejects, otherwise the
\* method once its token is complete and the path once its token is complete
\* (a partial parse is accepted).
Parse(r, n) ==
    IF n >= 1 /\ r.method = "BAD"
    THEN [status |-> "Err", method |-> "", path |-> ""]
    ELSE [status |-> "Ok",
          method |-> IF n >= 1 THEN r.method ELSE "",
          path |-> IF n >= 2 THEN r.path ELSE ""]

\* stream.read(): what a read returns given the peer's end and the unread
\* bytes.  "Block": nothing to return yet (a blocking read waits, the
\* non-blocking one returns WouldBlock).
ReadResult(s) ==
    CASE conn[s] = "reset" -> "Err"
      [] inbuf[s] > 0 -> "Data"
      [] conn[s] = "closed" -> "Zero"
      [] OTHER -> "Block"

\* The results a read may have now; of an arbitrary client, any.
ReadResults(s) ==
    IF conn[s] = "any" THEN {"Data", "Zero", "Err", "Block"} ELSE {ReadResult(s)}

\* What the parse may return after a read that returned data: of a tracked
\* client, the parse of the segments read so far; of an arbitrary client, the
\* parse of any request, whole or in part.
ParseResults(s) ==
    IF conn[s] = "any"
    THEN { Parse(r, n) : r \in Requests, n \in 1..ReqSegments }
    ELSE { Parse(req[s], got[s] + inbuf[s]) }

\* stream.write() on the blocking socket: it succeeds while the peer's end is
\* open; once the peer has closed or reset (or of an arbitrary client), it
\* may succeed or fail.
WriteResults(s) == IF conn[s] = "open" THEN {TRUE} ELSE {TRUE, FALSE}

\* stream.write() on the non-blocking socket: with the peer's end open it
\* succeeds while the socket buffer has room and fails (WouldBlock) when it is
\* full; once the peer has closed or reset, it may succeed or fail.
FrameWriteResults(s) ==
    IF conn[s] = "open" THEN {sockBuf[s] < SockCap} ELSE {TRUE, FALSE}

\* Variant: the method is not checked.
RouteByPath(method, path) == IF path # EVENT_PATH THEN Resp404 ELSE Preamble

\* The response chosen from the parsed method and path.
Route(method, path) ==
    IF method # "GET" THEN Resp405
    ELSE IF path # EVENT_PATH THEN Resp404
    ELSE Preamble

\* Where the session goes after writing its response: it streams only after
\* a preamble whose write succeeded.
AfterResponse(resp, ok) == IF resp = Preamble /\ ok THEN "recv" ELSE "closed"

\* What the handshake loop does once the bytes read so far are parsed.
AfterParse(p) ==
    IF p.status = "Err" THEN "closed"
    ELSE IF p.method # "" /\ p.path # "" THEN "route"
    ELSE "read"

\* The session moves to pc; on "closed" it returns, and its Receiver and its
\* stream are dropped.
Goto(s, pc) ==
    /\ sessPc' = [sessPc EXCEPT ![s] = pc]
    /\ rxAlive' = [rxAlive EXCEPT ![s] = (pc # "closed")]

\* One iteration of the handshake loop: a blocking read, a parse of
\* everything read so far and, once method and path are known, the response.
sess_read(s) ==
    /\ Running
    /\ sessPc[s] = "read"
    /\ \E r \in ReadResults(s) \ {"Block"} :
         IF r = "Data"
         THEN \E p \in ParseResults(s) :
                LET resp == Route(p.method, p.path)
                IN /\ got' = [got EXCEPT ![s] = @ + inbuf[s]]
                   /\ inbuf' = [inbuf EXCEPT ![s] = 0]
                   /\ IF AfterParse(p) = "route"
                      THEN \E ok \in WriteResults(s) :
                             /\ out' = IF ok THEN [out EXCEPT ![s] = Append(@, resp)] ELSE out
                             /\ Goto(s, AfterResponse(resp, ok))
                      ELSE /\ out' = out
                           /\ Goto(s, AfterParse(p))
         ELSE /\ Goto(s, "closed")
              /\ UNCHANGED <<out, got, inbuf>>
    /\ queued' = IF Tracked /\ sessPc'[s] = "recv" THEN [queued EXCEPT ![s] = chan[s]] ELSE queued
    /\ UNCHANGED <<req, conn, sockBuf, closeInfo>>
    /\ UNCHANGED <<world, cfg, mainVars, regVars, accVars, chan, delivered, registered, bcastHist>>

\* Variant: leftover request bytes end the session.
ProbeLeftoverCloses(r) ==
    CASE r = "Zero" -> "closed"
      [] r = "Data" -> "closed"
      [] r = "Block" -> "write"
      [] r = "Err" -> "closed"

\* What the streaming loop does with the result of its probe read.
ProbeOutcome(r) ==
    CASE r = "Zero" -> "closed"
      [] r = "Data" -> "write"
      [] r = "Block" -> "write"
      [] r = "Err" -> "closed"

\* Variant: a failed frame write ends the session.
AfterWriteChecked(ok) == IF ok THEN "recv" ELSE "closed"

\* After the frame write the loop goes back to rx.recv(), whatever the result.
AfterWrite(ok) == "recv"

\* One iteration of the streaming loop: rx.recv() returns a notification,
\* the non-blocking probe read, and the frame write if the probe lets it.
sess_wake(s) ==
    /\ Running
    /\ sessPc[s] = "recv"
    /\ chan[s] > 0
    /\ chan' = [chan EXCEPT ![s] = @ - 1]
    /\ \E r \in ReadResults(s) :
         /\ inbuf' = IF r = "Data" THEN [inbuf EXCEPT ![s] = 0] ELSE inbuf
         /\ got' = IF r = "Data" THEN [got EXCEPT ![s] = @ + inbuf[s]] ELSE got
         /\ IF ProbeOutcome(r) = "closed"
            THEN /\ Goto(s, "closed")
                 /\ UNCHANGED <<out, sockBuf>>
            ELSE \E ok \in FrameWriteResults(s) :
                   /\ out' = IF ok THEN [out EXCEPT ![s] = Append(@, Frame)] ELSE out
                   /\ sockBuf' = IF ok /\ conn[s] = "open"
                                 THEN [sockBuf EXCEPT ![s] = @ + 1] ELSE sockBuf
                   /\ Goto(s, AfterWrite(ok))
    /\ UNCHANGED <<req, conn, closeInfo, queued>>
    /\ UNCHANGED <<world, cfg, mainVars, regVars, accVars, delivered, registered, bcastHist>>

Session(s) ==
    \/ sess_read(s)
    \/ sess_wake(s)

\* ------------------------------------------------------------ peers (environment)
\* The peer of a tracked connection that the session still serves.
Live(s) == sessPc[s] # "closed" /\ conn[s] = "open"

\* The peer sends the next segment of its request.
peer_send(s) ==
    /\ Running
    /\ Live(s)
    /\ got[s] + inbuf[s] < ReqSegments
    /\ inbuf' = [inbuf EXCEPT ![s] = @ + 1]
    /\ UNCHANGED <<req, conn, sockBuf, closeInfo>>
    /\ UNCHANGED <<world, cfg, mainVars, regVars, accVars, sessVars, chan, delivered, registered, bcastHist>>

\* The peer reads everything the session has written.
peer_read(s) ==
    /\ Running
    /\ Live(s)
    /\ sockBuf[s] > 0
    /\ sockBuf' = [sockBuf EXCEPT ![s] = 0]
    /\ UNCHANGED <<req, conn, inbuf, closeInfo>>
    /\ UNCHANGED <<world, cfg, mainVars, regVars, accVars, sessVars, chan, delivered, registered, bcastHist>>

\* The peer closes the connection (FIN) or aborts it (RST); what it had not
\* read is discarded.
peer_close(s) ==
    /\ Running
    /\ Live(s)
    /\ \E how \in {"closed", "reset"} : conn' = [conn EXCEPT ![s] = how]
    /\ sockBuf' = [sockBuf EXCEPT ![s] = 0]
    /\ closeInfo' = [closeInfo EXCEPT ![s] = [upd |-> nUpdates, frames |-> Frames(s)]]
    /\ UNCHANGED <<req, inbuf>>
    /\ UNCHANGED <<world, cfg, mainVars, regVars, accVars, sessVars, chan, delivered, registered, bcastHist>>

Peer(s) ==
    \/ peer_send(s)
    \/ peer_read(s)
    \/ peer_close(s)

Main ==
    \/ main_start
    \/ main_recv
    \/ main_match
    \/ main_rearmed
    \/ update_cmd_start
    \/ update_cmd_exit
    \/ update_lock
    \/ update_send
    \/ update_collect

Next ==
    \/ Main
    \/ Acceptor
    \/ \E s \in Subs : Session(s)
    \/ \E s \in Subs : Peer(s)

Spec == Init /\ [][Next]_vars

\* Scheduling: the control task and the acceptor are threads of their own, so
\* each runs when it can: update() goes on once the mutex is free and through
\* its fan-out, and the acceptor gets the mutex if it is free again and again.
\* Nothing is assumed of the sessions or of the peers.
Fairness ==
    /\ WF_vars(update_lock)
    /\ WF_vars(update_send)
    /\ WF_vars(update_collect)
    /\ SF_vars(acc_push)

LiveSpec == Spec /\ Fairness
\* ================================================================ properties
\* Steps of the control task and of the sessions, as seen from outside.
Range(seq) == { seq[i] : i \in 1..Len(seq) }
NoDuplicates(seq) == Cardinality(Range(seq)) = Len(seq)
Ascending(S) == LET In(i) == i \in S IN SelectSeq([i \in 1..MaxSubs |-> i], In)
CollectStep == mainPc = "send" /\ mainPc' = "recv"
MainStepsFrom(pc) == mainPc = pc /\ mainPc' # pc
Exited == {"exit0", "exit1"}

\* ------------------------------------------------------------------------ C1
\* C1: the broadcast-and-compact step of update() leaves in the Registry
\* exactly the entries whose send succeeded: with N entries before and K
\* failed sends, the N - K survivors, each once, in their previous order.
C1_CompactKeepsSurvivors ==
    [][ CollectStep =>
          LET Survived(s) == s \in sentOk
              K == Cardinality({ s \in Range(bcastPre) : s \notin sentOk })
          IN /\ \A s \in Range(bcastPre) : attempts[s] = 1
             /\ tx_list' = SelectSeq(bcastPre, Survived)
             /\ Len(tx_list') = Len(bcastPre) - K
             /\ NoDuplicates(tx_list') ]_vars

\* A broadcast over two entries, one of whose sends failed, is about to compact.
C1_Witness ==
    /\ mainPc = "send"
    /\ drain = <<>>
    /\ Len(bcastPre) = 2
    /\ Cardinality(sentOk) = 1
    /\ Len(kept) = 1

\* ------------------------------------------------------------------------ C2
\* C2: whatever the interleaving of registrations and broadcasts, outside the
\* control task's critical section the Registry holds exactly the subscribers
\* registered so far to which no send has failed, each once and in
\* registration order: nothing is lost and nothing is duplicated.
C2_NoEntryLostOrDuplicated ==
    lock # "main" => tx_list = Ascending(registered \ failed)

\* After a broadcast, the Registry holds a survivor of that broadcast and a
\* subscriber registered after its critical section.
C2_Witness ==
    /\ mainPc = "recv"
    /\ lock = "free"
    /\ nUpdates = 1
    /\ tx_list = <<1, 2>>
    /\ delivered[1] = 1
    /\ delivered[2] = 0

\* ------------------------------------------------------------------------ C3
\* C3: a broadcast sends exactly one notification to each subscriber
\* registered (and not yet failed) when its critical section began, and none
\* to any other: a subscriber registering meanwhile waits for the mutex and is
\* first notified by the next broadcast.
C3_RegistrantIncludedOrDeferred ==
    mainPc = "send" =>
        \A s \in Subs :
            /\ attempts[s] <= 1
            /\ s \notin regAtLock => attempts[s] = 0
            /\ (drain = <<>> /\ s \in regAtLock) => attempts[s] = 1

\* A broadcast has notified the first subscriber while the acceptor waits for
\* the mutex to register the second.
C3_Witness ==
    /\ mainPc = "send"
    /\ drain = <<>>
    /\ accPc = "lock"
    /\ nAccepted = 2
    /\ attempts[1] = 1
    /\ attempts[2] = 0

\* ------------------------------------------------------------------------ C4
\* C4: an ignored notice (NoticeRemove, NoticeWrite, Rescan) never calls
\* update(); a Write, Chmod or Create notice, and a Remove whose re-arm
\* succeeded, calls it exactly once; the only other call is the one made at
\* startup, before any notice, when the init flag is set.
C4_UpdatePerActionableNotice ==
    [][ /\ (MainStepsFrom("match") /\ notice \in IgnoredKinds)
             => nUpdates' = nUpdates /\ mainPc' = "recv"
        /\ (MainStepsFrom("match") /\ notice \in ModifiedKinds)
             => nUpdates' = nUpdates + 1
        /\ (MainStepsFrom("start") /\ cfg.init)
             => nUpdates = 0 /\ nUpdates' = 1
        /\ (MainStepsFrom("start") /\ ~cfg.init)
             => nUpdates' = nUpdates
        /\ mainPc' = "start" => mainPc = "start"
        /\ nUpdates' # nUpdates
             => /\ nUpdates' = nUpdates + 1
                /\ \/ mainPc = "start" /\ cfg.init
                   \/ mainPc = "match" /\ notice \in ModifiedKinds
                   \/ mainPc = "rearmed" /\ rearm = "ok" ]_vars

\* After the startup update and one triggered update, an ignored notice is
\* being matched.
C4_Witness ==
    /\ cfg.init
    /\ nUpdates = 2
    /\ mainPc = "match"
    /\ notice = "NoticeWrite"

\* ------------------------------------------------------------------------ C5
\* C5: with a command and broadcasting configured, update() sends no
\* notification before its command has been started and has run to
\* completion, and it goes on to the broadcast whatever the exit status.
C5_BroadcastAfterCommand ==
    [][ /\ (cfg.cmd /\ delivered' # delivered)
             => mainPc = "send" /\ cmdStatus \in Exited
        /\ (cfg.cmd /\ mainPc \in {"lock", "send"})
             => cmdStatus \in Exited
        /\ (cfg.cmd /\ cfg.event /\ MainStepsFrom("cmd_wait"))
             => mainPc' = "lock" /\ cmdStatus' \in Exited ]_vars

\* A notification has been sent in an update() whose command exited with a
\* failure status.
C5_Witness ==
    /\ cfg.cmd
    /\ mainPc = "send"
    /\ cmdStatus = "exit1"
    /\ sentOk # {}

\* ------------------------------------------------------------------------ C6
\* What a session has written is nothing, one error response, or the preamble
\* followed by event frames only.
FramesOnly(seq) == \A i \in 1..Len(seq) : seq[i] = Frame
WellFormed(seq) ==
    \/ seq \in {<<>>, <<Resp405>>, <<Resp404>>}
    \/ seq # <<>> /\ Head(seq) = Preamble /\ FramesOnly(Tail(seq))

\* The session of a tracked client ends its handshake with method and path parsed.
HandshakeEnds(s) ==
    /\ conn[s] # "any"
    /\ req[s].method # "BAD"
    /\ sessPc[s] = "read"
    /\ sessPc'[s] # "read"
    /\ got'[s] >= 2

\* C6 as stated: GET /events writes the preamble once and enters Streaming;
\* another method writes exactly the 405 response and closes; GET with another
\* path writes exactly the 404 response and closes.
C6_AsStated ==
    [][ \A s \in Subs : HandshakeEnds(s) =>
          IF req[s].method # "GET"
          THEN out'[s] = <<Resp405>> /\ sessPc'[s] = "closed"
          ELSE IF req[s].path # EVENT_PATH
          THEN out'[s] = <<Resp404>> /\ sessPc'[s] = "closed"
          ELSE out'[s] = <<Preamble>> /\ sessPc'[s] = "recv" ]_vars

\* C6 (amended): the session attempts exactly one response write.  GET /events:
\* if the preamble write succeeds the preamble is written once and the session
\* enters Streaming, otherwise nothing is written and it closes.  Another
\* method: the 405 response or (failed write) nothing, and it closes.  GET
\* with another path: the 404 response or nothing, and it closes.  A closed
\* session writes nothing more, a streaming one only event frames, and only a
\* session that wrote the preamble ever streams.
C6_ResponseByMethodAndPath ==
    [][ \A s \in Subs :
          /\ HandshakeEnds(s) =>
               IF req[s].method # "GET"
               THEN out'[s] \in {<<>>, <<Resp405>>} /\ sessPc'[s] = "closed"
               ELSE IF req[s].path # EVENT_PATH
               THEN out'[s] \in {<<>>, <<Resp404>>} /\ sessPc'[s] = "closed"
               ELSE \/ out'[s] = <<Preamble>> /\ sessPc'[s] = "recv"
                    \/ out'[s] = <<>> /\ sessPc'[s] = "closed"
          /\ sessPc[s] = "closed" => out'[s] = out[s]
          /\ sessPc[s] = "recv" => out'[s] \in {out[s], Append(out[s], Frame)}
          /\ WellFormed(out'[s])
          /\ sessPc'[s] = "recv" => (out'[s] # <<>> /\ Head(out'[s]) = Preamble) ]_vars

\* A session that was sent GET /events has written the preamble and streams.
C6_Witness ==
    \E s \in Subs :
        /\ conn[s] = "open"
        /\ req[s] = [method |-> "GET", path |-> EVENT_PATH]
        /\ sessPc[s] = "recv"
        /\ out[s] = <<Preamble>>

\* ------------------------------------------------------------------------ C7
\* The peer is connected and has read none of the frames written to it.
NonReading(s) == conn[s] = "open" /\ sockBuf[s] = Frames(s)

\* C7 as stated: for a streaming subscriber whose peer stays connected and
\* does not read, once the session has handled the notifications of k updates
\* there are exactly k frames on its socket.
C7_AsStated ==
    \A s \in Subs :
        (sessPc[s] = "recv" /\ chan[s] = 0 /\ NonReading(s))
            => Frames(s) = delivered[s]

\* ------------------------------------------------------------------------ C8
\* The peer of s closed when one frame had been written, and the control task
\* is in the second update() called since.
SecondUpdateAfterClose(s) ==
    /\ closeInfo[s].frames = 1
    /\ nUpdates = closeInfo[s].upd + 2

C9_AsStated ==
    [][ accPc = "panicked" => nUpdates' = nUpdates /\ notice' = notice ]_vars

\* ----------------------------------------------------------------------- C10
\* C10: on a Remove notice, if re-arming the watch succeeds update() is called
\* exactly once and the loop goes on; if it fails main() returns the error
\* "File was deleted" without calling update(), and nothing is processed
\* after that.
C10_RemoveRearmsOrHalts ==
    [][ /\ (MainStepsFrom("match") /\ notice = "Remove")
             => mainPc' = "rearmed" /\ nUpdates' = nUpdates
        /\ (MainStepsFrom("rearmed") /\ rearm = "ok")
             => nUpdates' = nUpdates + 1 /\ mainPc' # "halted" /\ err' = "none"
        /\ (MainStepsFrom("rearmed") /\ rearm = "err")
             => /\ nUpdates' = nUpdates
                /\ mainPc' = "halted"
                /\ err' = "File was deleted"
        /\ mainPc = "halted" => UNCHANGED vars ]_vars

\* main() has returned "File was deleted" on a Remove notice whose re-arm
\* failed, after an earlier update().
C10_Witness ==
    /\ mainPc = "halted"
    /\ err = "File was deleted"
    /\ notice = "Remove"
    /\ rearm = "err"
    /\ nUpdates >= 1
\* ----------------------------------------------------------------------- C11
\* Nothing of the program changes once main() has returned an error.
HaltedIsFinal == mainPc = "halted" => UNCHANGED vars

\* C11: a Rename notice makes main() return the error "File was renamed",
\* wherever the loop stands: that step calls no update() and sends no
\* notification, and no notice is processed after it.
C11_RenameIsFatal ==
    [][ /\ (MainStepsFrom("match") /\ notice = "Rename")
             => /\ mainPc' = "halted"
                /\ err' = "File was renamed"
                /\ nUpdates' = nUpdates
                /\ delivered' = delivered
                /\ chan' = chan
                /\ tx_list' = tx_list
        /\ err = "File was renamed" => HaltedIsFinal /\ mainPc = "halted" ]_vars

\* main() has returned "File was renamed" after earlier updates, with a
\* subscriber registered.
C11_Witness ==
    /\ mainPc = "halted"
    /\ err = "File was renamed"
    /\ notice = "Rename"
    /\ nUpdates >= 1
    /\ tx_list # <<>>

\* ----------------------------------------------------------------------- C12
\* C12: when the command cannot be started, update() returns the error
\* "Failed to run command" and the control loop halts; no notification has
\* been sent in that update() and the Registry is as it was.
C12_LaunchFailureIsFatal ==
    [][ /\ (MainStepsFrom("cmd") /\ cmdStatus' # "running")
             => /\ mainPc' = "halted"
                /\ err' = "Failed to run command"
                /\ delivered' = delivered
                /\ chan' = chan
                /\ tx_list' = tx_list
        /\ mainPc = "cmd"
             => /\ sentOk = {} /\ \A s \in Subs : attempts[s] = 0
                /\ lock # "main"
                /\ (delivered' = delivered /\ chan' = chan) \/ mainPc' = "cmd"
        /\ err = "Failed to run command" => HaltedIsFinal /\ mainPc = "halted" ]_vars

\* update() has failed to start its command while a subscriber is registered.
C12_Witness ==
    /\ mainPc = "halted"
    /\ err = "Failed to run command"
    /\ cfg.event
    /\ tx_list # <<>>
    /\ nUpdates >= 2

\* ----------------------------------------------------------------------- C14
\* A session or its peer makes a step on connection s (registration excluded).
SessionOrPeerStep(s) ==
    /\ sessPc[s] # "none"
    /\ \/ sessPc'[s] # sessPc[s]
       \/ conn'[s] # conn[s]
       \/ out'[s] # out[s]
       \/ got'[s] # got[s]
       \/ inbuf'[s] # inbuf[s]

SendStep == mainPc = "send" /\ drain # <<>> /\ drain' # drain

\* C14: whatever happens to a session (peer close, read error, malformed
\* request, 404/405, failed frame write) changes nothing of the control task,
\* of the Registry or of the other subscribers; main() halts only on its own
\* errors; a send is made to each entry whatever happened to the others, and
\* a broadcast removes only entries whose send failed, their session ended.
C14_SessionFailuresAreLocal ==
    [][ /\ \A s \in Subs : SessionOrPeerStep(s) =>
             /\ UNCHANGED <<mainVars, regVars, delivered, registered>>
             /\ \A t \in Subs \ {s} :
                  /\ out'[t] = out[t]
                  /\ sessPc'[t] = sessPc[t]
                  /\ rxAlive'[t] = rxAlive[t]
                  /\ chan'[t] = chan[t]
        /\ (mainPc' = "halted" /\ mainPc # "halted")
             => /\ mainPc \in {"match", "rearmed", "cmd"}
                /\ err' \in {"File was renamed", "notifier error",
                             "File was deleted", "Failed to run command"}
        /\ SendStep =>
             LET tx == Head(drain)
             IN /\ mainPc' = "send"
                /\ err' = err
                /\ rxAlive[tx] => delivered'[tx] = delivered[tx] + 1
                /\ \A t \in Subs \ {tx} : delivered'[t] = delivered[t]
        /\ CollectStep =>
             /\ \A s \in Range(bcastPre) \ Range(tx_list') : sessPc[s] = "closed"
             /\ Range(tx_list') = sentOk ]_vars

\* After two broadcasts the first session has ended and been removed, and the
\* second subscriber has been sent both notifications and is still registered.
C14_Witness ==
    /\ mainPc = "recv"
    /\ sessPc[1] = "closed"
    /\ failed = {1}
    /\ tx_list = <<2>>
    /\ delivered[2] = 2

\* ----------------------------------------------------------------------- C15
\* C15: a session that closes leaves the Registry as it is; outside update()'s
\* critical section the Registry only changes by the push of the connection
\* just accepted, one entry per accepted connection.
C15_RegistryShrinksOnlyInBroadcast ==
    [][ /\ \A s \in Subs : (sessPc'[s] = "closed" /\ sessPc[s] # "closed")
             => UNCHANGED regVars
        /\ (tx_list' # tx_list /\ mainPc' = mainPc)
             => /\ accPc = "lock" /\ accPc' = "accept"
                /\ tx_list' = Append(tx_list, nAccepted)
        /\ (tx_list' # tx_list /\ mainPc' # mainPc)
             => \/ mainPc = "lock" /\ mainPc' = "send"
                \/ CollectStep
        /\ nAccepted' = Cardinality(registered') + (IF accPc' = "lock" THEN 1 ELSE 0) ]_vars

\* Between two broadcasts, the session of a registered subscriber has closed
\* and both entries are still in the Registry.
C15_Witness ==
    \E s \in Subs :
        /\ sessPc[s] = "closed"
        /\ lock = "free"
        /\ nUpdates >= 1
        /\ mainPc = "recv"
        /\ Len(tx_list) = 2
        /\ s \in Range(tx_list)

\* ----------------------------------------------------------------------- C16
\* C16: a send fails at most once per subscriber: it fails only to a
\* subscriber to which no send had failed, and a subscriber to which a send
\* has failed is neither in the Registry nor in the rest of the broadcast.
C16_AtMostOneFailedSend ==
    [][ /\ SendStep =>
             (~rxAlive[Head(drain)] => Head(drain) \notin failed)
        /\ \A s \in failed' :
             s \notin Range(tx_list') \cup Range(drain') \cup Range(kept') ]_vars

\* A second broadcast has been made after a send failed: it did not send to
\* the removed subscriber and it notified the other.
C16_Witness ==
    /\ mainPc = "send"
    /\ drain = <<>>
    /\ nUpdates = 2
    /\ failed = {1}
    /\ attempts[1] = 0
    /\ sentOk = {2}

\* ----------------------------------------------------------------------- C17
\* The streaming session s takes a notification from its channel.
WakeStep(s) == sessPc[s] = "recv" /\ chan'[s] = chan[s] - 1

C18_FailedWriteIsNotFatal ==
    [][ \A s \in Subs :
          /\ (WakeStep(s) /\ sessPc'[s] = "recv")
               => rxAlive'[s] /\ out'[s] \in {out[s], Append(out[s], Frame)}
          /\ (WakeStep(s) /\ conn[s] = "open" /\ sockBuf[s] >= SockCap)
               => sessPc'[s] = "recv" /\ rxAlive'[s] /\ out'[s] = out[s]
          /\ (sessPc[s] = "recv" /\ out'[s] # out[s]) => WakeStep(s)
          /\ (sessPc[s] = "recv" /\ sessPc'[s] # "recv")
               => /\ WakeStep(s)
                  /\ sessPc'[s] = "closed"
                  /\ out'[s] = out[s]
                  /\ conn[s] \in {"closed", "reset", "any"} ]_vars

\* The third frame write to a connected peer that does not read has failed,
\* and the session is still streaming.
C18_Witness ==
    \E s \in Subs :
        /\ conn[s] = "open"
        /\ sessPc[s] = "recv"
        /\ rxAlive[s]
        /\ sockBuf[s] = SockCap
        /\ Frames(s) = SockCap
        /\ delivered[s] = SockCap + 1
        /\ chan[s] = 0

\* ----------------------------------------------------------------------- C19
\* The senders that exist: in the Registry or, during a broadcast, in the
\* drain or among those collected.
Senders == Range(tx_list) \cup Range(drain) \cup Range(kept)

\* C19: the sender of every running session exists, so rx.recv() never
\* returns a disconnection error: a sender is dropped only after a send to it
\* failed, and a send fails only once the session has ended.
C19_RecvNeverDisconnected ==
    /\ \A s \in Subs : sessPc[s] \in {"read", "recv"} => (rxAlive[s] /\ s \in Senders)
    /\ \A s \in failed : sessPc[s] = "closed"

\* One session has ended and been removed by a broadcast; the other was
\* notified by it, is still streaming and its sender is in the Registry.
C19_Witness ==
    \E s \in Subs :
        /\ sessPc[s] = "recv"
        /\ delivered[s] >= 1
        /\ tx_list = <<s>>
        /\ lock = "free"
        /\ failed # {}
\* ----------------------------------------------------------------------- C20
FramesIn(seq) == Len(SelectSeq(seq, IsFrame))

C13_DispatchNeverStalls ==
    /\ [](lock = "main" <=> mainPc = "send")
    /\ (mainPc = "lock") ~> (mainPc = "send")
    /\ (mainPc = "send") ~> (mainPc = "recv" /\ lock = "free")
    /\ (accPc = "lock") ~> (accPc = "accept" \/ mainPc = "halted")

\* The second update() is about to take the mutex while one session is
\* blocked in its handshake read and the other has not consumed the
\* notification of the first.
C13_Witness ==
    /\ mainPc = "lock"
    /\ nUpdates = 2
    /\ sessPc[1] = "read"
    /\ sessPc[2] = "recv"
    /\ chan[2] = 1
====
